---- MODULE Spec2Model ----
(***************************************************************************)
(* The game state machine of the Fever card game                           *)
(* (src/src/services/gameService.ts: GameService and the gameUtils         *)
(* helpers), over the single Firestore game document.                      *)
(*                                                                         *)
(* The GameService methods are the operations of the system.  The checks   *)
(* the GameBoard component makes before calling them (isMyTurn, the        *)
(* disabled state of the buttons) are evaluated against the client's last  *)
(* snapshot of the document, which may be stale, so every method can be    *)
(* invoked by every player in every state of the document.  The one piece  *)
(* of client state that is kept is drawnCard, the card a player holds: it  *)
(* is the argument of the two discard operations.                          *)
(*                                                                         *)
(* A method built on runTransaction is one atomic step.  A method built on *)
(* getDoc followed by updateDoc is two steps, a read and a write, and the  *)
(* steps of other calls may come in between.  updateDoc replaces only the  *)
(* fields it names.  The bookkeeping fields lastAction and updatedAt are   *)
(* not modelled.                                                           *)
(***************************************************************************)
EXTENDS Integers, Sequences, FiniteSets, TLC

(***************************************************************************)
(* Bounds of the model.                                                    *)
(***************************************************************************)
\* number of players in the game
NumPlayers == 2
\* rows of every grid (gameMode = 3 * Rows)
Rows == 2
\* cards left in the deck after the deal
DeckRest == 2
\* calls of GameService methods in one behaviour
MaxOps == 3
\* the same, in the behaviours of SpecDeep
MaxOpsDeep == 4

PlayerIds == 1..NumPlayers
gameMode == 3 * Rows
CellIndexes == 1..(3 * Rows)
\* the cells that calls name as their targets: the first and the last of a grid
TargetCells == {1, 3 * Rows}

(***************************************************************************)
(* Cards.  A card is a record; a field that is absent in the JavaScript    *)
(* object (undefined) has the value NoId, NoRank, NoSuit, NaN or           *)
(* NoAbility.  null (an empty grid cell) is the record Null.               *)
(***************************************************************************)
NoId == 0
NaN == 99
NoRank == "undefined"
NoSuit == "null"
NoAbility == "undefined"

suits == <<"hearts", "diamonds", "clubs", "spades">>
ranks == <<"A", "2", "3", "4", "5", "6", "7", "8", "9", "10", "J", "Q", "K">>

Null ==
  [id |-> NoId, suit |-> NoSuit, rank |-> "null", value |-> NaN,
   isFaceUp |-> FALSE, specialAbility |-> NoAbility]

\* the object {card, row, col} of the flattened grid, read as if it were a card:
\* it has none of the fields of a card
MetadataObject ==
  [id |-> NoId, suit |-> NoSuit, rank |-> NoRank, value |-> NaN,
   isFaceUp |-> FALSE, specialAbility |-> NoAbility]

\* specialAbilityCards with the entries of the hearts only
specialAbilityCardsHearts(rank, suit) ==
  IF suit # "hearts" THEN NoAbility
  ELSE CASE rank = "7" -> "flip-opponent"
         [] rank = "Q" -> "swap"
         [] rank = "J" -> "double-turn"
         [] rank = "K" -> "peek-self"
         [] OTHER -> NoAbility

specialAbilityCards(rank, suit) ==
  IF suit = NoSuit THEN NoAbility
  ELSE CASE rank = "7" -> "flip-opponent"
         [] rank = "Q" -> "swap"
         [] rank = "J" -> "double-turn"
         [] rank = "K" -> "peek-self"
         [] OTHER -> NoAbility

\* parseInt of a numeric rank
parseInt(rank) ==
  CASE rank = "2" -> 2 [] rank = "3" -> 3 [] rank = "4" -> 4 [] rank = "5" -> 5
    [] rank = "6" -> 6 [] rank = "7" -> 7 [] rank = "8" -> 8 [] rank = "9" -> 9
    [] OTHER -> NaN

\* getCardValue without the case of the 10: parseInt gives it its face value
getCardValueFaceTen(rank) ==
  CASE rank = "A" -> 1
    [] rank = "joker" -> -1
    [] rank = "10" -> 10
    [] rank \in {"J", "Q", "K"} -> 15
    [] OTHER -> parseInt(rank)

getCardValue(rank) ==
  CASE rank = "A" -> 1
    [] rank = "joker" -> -1
    [] rank = "10" -> 0
    [] rank \in {"J", "Q", "K"} -> 15
    [] OTHER -> parseInt(rank)

\* the k-th card (k = 0, 1, ...) that createDeck pushes: per deck 4 suits of 13
\* ranks, then 2 jokers; the uuid is modelled by the position k + 1
createDeckCard(k) ==
  LET within == k % 54
  IN IF within < 52
       THEN LET suit == suits[(within \div 13) + 1]
                rank == ranks[(within % 13) + 1]
            IN [id |-> k + 1, suit |-> suit, rank |-> rank,
                value |-> getCardValue(rank), isFaceUp |-> FALSE,
                specialAbility |-> specialAbilityCards(rank, suit)]
       ELSE [id |-> k + 1, suit |-> NoSuit, rank |-> "joker", value |-> -1,
             isFaceUp |-> FALSE, specialAbility |-> NoAbility]

\* Math.random() in the id of a placeholder card is not modelled: every
\* placeholder has the id CorruptedId, which is the id of no real card
CorruptedId == -1

\* one outcome of the random choices of shuffleDeck: the positions, in the deck
\* it is given, of the cards that come first in the deck it returns; the other
\* cards follow in their old order
ShuffleOrder ==
  <<6, 4, 0, 1, 8, 11, 12, 2, 58, 7, 5, 55, 10, 3, 52, 19,
    24, 25, 57, 23, 53, 9, 15, 14, 13, 16, 17, 18, 20, 21, 22, 26>>

\* shuffleDeck returns a permutation of its argument
shuffleDeck(deck) ==
  LET first == SelectSeq(ShuffleOrder, LAMBDA k : k < Len(deck))
      moved == {first[i] : i \in 1..Len(first)}
      rest == SelectSeq([i \in 1..Len(deck) |-> i - 1], LAMBDA k : k \notin moved)
      order == first \o rest
  IN [i \in 1..Len(deck) |-> deck[order[i] + 1]]

\* the deck createDeck has built when it calls shuffleDeck
newDeck(numberOfDecks) == [i \in 1..(54 * numberOfDecks) |-> createDeckCard(i - 1)]

createDeck(numberOfDecks) == shuffleDeck(newDeck(numberOfDecks))

\* the outcome of the random choices of shuffleDeck in the run numbered seed:
\* place i (from 0) of the deck it returns takes the card at place
\* 7 * i + 5 * seed of the deck it is given, counted round the deck.  This is a
\* permutation of the deck, as 7 has no factor in common with the 54 *
\* numberOfDecks cards of a deck of at most 12 packs.
shuffleDeckWith(deck, seed) ==
  [i \in 1..Len(deck) |-> deck[((7 * (i - 1) + 5 * seed) % Len(deck)) + 1]]

createDeckWith(numberOfDecks, seed) == shuffleDeckWith(newDeck(numberOfDecks), seed)

\* cards of the deck that the game is played with: enough to fill every grid,
\* and DeckRest more.  The cards of the deck after these are left out.
TotalCards == NumPlayers * gameMode + DeckRest

SeqMap(f(_), s) == [i \in 1..Len(s) |-> f(s[i])]

\* s[k] + ... + s[Len(s)]
RECURSIVE SumFrom(_, _)
SumFrom(s, k) == IF k > Len(s) THEN 0 ELSE s[k] + SumFrom(s, k + 1)

SumValues(s) == SumFrom(s, 1)

\* row and column of the cell at index c of the flattened grid
RowOf(c) == (c - 1) \div 3
ColOf(c) == (c - 1) % 3
CellAt(row, col) == row * 3 + col + 1

normalizeCard(c) ==
  IF c = Null THEN c
  ELSE IF c.id = NoId \/ c.rank = NoRank
    THEN [id |-> CorruptedId, rank |-> "A", suit |-> NoSuit, value |-> 0,
          isFaceUp |-> c.isFaceUp, specialAbility |-> NoAbility]
    ELSE [c EXCEPT !.value = IF c.value = NaN THEN getCardValue(c.rank) ELSE c.value]

\* the rank toFirestoreCard derives from a value when the rank is missing
RankFromValue(v) ==
  CASE v = -1 -> "joker" [] v = 0 -> "10" [] v = 1 -> "A" [] v = 15 -> "K"
    [] OTHER -> ranks[v]

toFirestoreCard(c) ==
  IF c = Null THEN Null
  ELSE LET value1 == IF c.value = NaN /\ c.rank # NoRank
                       THEN getCardValue(c.rank) ELSE c.value
           finalRank == IF c.rank = NoRank /\ value1 # NaN
                          THEN RankFromValue(value1) ELSE c.rank
       IN [id |-> c.id, suit |-> c.suit, rank |-> finalRank,
           value |-> IF value1 # NaN THEN value1
                     ELSE IF finalRank # NoRank THEN getCardValue(finalRank) ELSE 0,
           isFaceUp |-> c.isFaceUp, specialAbility |-> c.specialAbility]

\* calculatePlayerScore that adds the value of the face-up cards only
calculatePlayerScoreFaceUp(cards) ==
  SumValues([i \in 1..Len(cards) |->
               IF cards[i] = Null \/ ~cards[i].isFaceUp THEN 0 ELSE cards[i].value])

calculatePlayerScore(cards) ==
  SumValues([i \in 1..Len(cards) |-> IF cards[i] = Null THEN 0 ELSE cards[i].value])

\* dealtHand with a deckIndex that starts at 0 for every player
dealtHandFromHead(deck0, n, mode) ==
  LET rows == mode \div 3
  IN [c \in 1..(3 * rows) |->
        LET deckIndex == c - 1
        IN IF deckIndex < Len(deck0)
             THEN IF RowOf(c) = rows - 1
                    THEN [deck0[deckIndex + 1] EXCEPT !.isFaceUp = FALSE]
                    ELSE deck0[deckIndex + 1]
             ELSE Null]

\* the grid dealCards builds for the n-th player, as the flattened list of its
\* cells: cell c takes the card at deckIndex, or stays empty when the deck is
\* used up
dealtHand(deck0, n, mode) ==
  LET rows == mode \div 3
  IN [c \in 1..(3 * rows) |->
        LET deckIndex == (n - 1) * mode + (c - 1)
        IN IF deckIndex < Len(deck0)
             THEN IF RowOf(c) = rows - 1
                    THEN [deck0[deckIndex + 1] EXCEPT !.isFaceUp = FALSE]
                    ELSE deck0[deckIndex + 1]
             ELSE Null]

\* dealCards returning the deck it was given instead of the part not dealt
dealCardsKeepingDeck(deck0, playerCount, mode) ==
  [updatedDeck |-> deck0,
   playerHands |-> [n \in 1..playerCount |-> dealtHand(deck0, n, mode)]]

dealCards(deck0, playerCount, mode) ==
  LET used == IF playerCount * mode < Len(deck0) THEN playerCount * mode ELSE Len(deck0)
  IN [updatedDeck |-> SubSeq(deck0, used + 1, Len(deck0)),
      playerHands |-> [n \in 1..playerCount |-> dealtHand(deck0, n, mode)]]

\* the players of the document with every card read through normalizeCard
reconstructPlayersHands2D(ps) ==
  [n \in 1..Len(ps) |-> [ps[n] EXCEPT !.cards = SeqMap(normalizeCard, ps[n].cards)]]

\* the players as written to the document: every card through toFirestoreCard
flattenPlayersHandsForFirestore(ps) ==
  [n \in 1..Len(ps) |-> [ps[n] EXCEPT !.cards = SeqMap(toFirestoreCard, ps[n].cards)]]

(***************************************************************************)
(* State.                                                                  *)
(***************************************************************************)
VARIABLES
  \* the game document
  deck, discardPile, players, currentPlayerIndex, status, activeAbility, winner,
  \* GameBoard: the card each player holds, and the call that returned it
  drawnCard, drawnBy,
  \* the getDoc/updateDoc methods in flight: where each player's call stands and
  \* the document it read (its local variable game)
  pc, game,
  \* the setTimeout callbacks that are scheduled and have not run
  startTimer, endGameTimers,
  \* the latest call with its caller and its outcome, and the number of calls
  \* that may still be made
  lastCall, opsLeft

docVars == <<deck, discardPile, players, currentPlayerIndex, status, activeAbility, winner>>
vars == <<deck, discardPile, players, currentPlayerIndex, status, activeAbility, winner,
          drawnCard, drawnBy, pc, game, startTimer, endGameTimers, lastCall, opsLeft>>

\* activeAbility: null
NoActiveAbility == [playerId |-> NoId, ability |-> NoAbility, cardId |-> NoId]
\* winner: null
NoWinner == 0

NotDrawn == [op |-> "none", seen |-> 0]
NoGame ==
  [deck |-> <<>>, discardPile |-> <<>>, players |-> <<>>, currentPlayerIndex |-> 0,
   status |-> "none", positions |-> <<>>]
NoCall == [op |-> "none", playerId |-> NoId, result |-> "none"]

Call(op, playerId, result) == [op |-> op, playerId |-> playerId, result |-> result]

\* the document startGame writes for playerCount players in a room of game mode
\* mode, when createDeck has returned deck0
startGameWith(deck0, playerCount, mode) ==
  LET dealt == dealCards(deck0, playerCount, mode)
      gamePlayers ==
        [i \in 1..playerCount |->
           [id |-> i,
            cards |-> SeqMap(normalizeCard, dealt.playerHands[i]),
            score |-> 0,
            isCurrentTurn |-> (i - 1 = 0),
            hasCalledStop |-> FALSE]]
  IN [players |-> flattenPlayersHandsForFirestore(gamePlayers),
      currentPlayerIndex |-> 0,
      deck |-> SeqMap(toFirestoreCard, dealt.updatedDeck),
      discardPile |-> <<>>,
      status |-> "starting",
      winner |-> NoWinner]

\* the document startGame writes for playerCount players, with the first n cards
\* of the deck it creates
startGame(playerCount, n) ==
  LET numberOfDecks == playerCount * 2
  IN startGameWith(SubSeq(createDeck(numberOfDecks), 1, n), playerCount, gameMode)

InitWith(n, calls) ==
  LET doc == startGame(NumPlayers, n)
  IN /\ deck = doc.deck
     /\ discardPile = doc.discardPile
     /\ players = doc.players
     /\ currentPlayerIndex = doc.currentPlayerIndex
     /\ status = doc.status
     /\ activeAbility = NoActiveAbility
     /\ winner = doc.winner
     /\ drawnCard = [p \in PlayerIds |-> Null]
     /\ drawnBy = [p \in PlayerIds |-> NotDrawn]
     /\ pc = [p \in PlayerIds |-> "idle"]
     /\ game = [p \in PlayerIds |-> NoGame]
     /\ startTimer = TRUE
     /\ endGameTimers = 0
     /\ lastCall = NoCall
     /\ opsLeft = calls

Init == InitWith(TotalCards, MaxOps)

\* players.findIndex(p => p.id === playerId), as a position 1..Len(ps); 0 for -1
findIndex(ps, playerId) ==
  IF \E i \in 1..Len(ps) : ps[i].id = playerId
    THEN CHOOSE i \in 1..Len(ps) : ps[i].id = playerId /\ \A j \in 1..(i - 1) : ps[j].id # playerId
    ELSE 0

\* players.forEach((p, i) => { p.isCurrentTurn = i === index })
setCurrentTurn(ps, index) ==
  [i \in 1..Len(ps) |-> [ps[i] EXCEPT !.isCurrentTurn = (i - 1 = index)]]

\* the game document, as a transaction reads it
Doc ==
  [deck |-> deck, discardPile |-> discardPile, players |-> players,
   currentPlayerIndex |-> currentPlayerIndex, status |-> status,
   activeAbility |-> activeAbility, winner |-> winner]

\* the document after a transaction commits doc
Commit(doc) ==
  /\ deck' = doc.deck
  /\ discardPile' = doc.discardPile
  /\ players' = doc.players
  /\ currentPlayerIndex' = doc.currentPlayerIndex
  /\ status' = doc.status
  /\ activeAbility' = doc.activeAbility
  /\ winner' = doc.winner

(***************************************************************************)
(* drawFromDeck: getDoc, then updateDoc of deck.                           *)
(***************************************************************************)
DrawFromDeckRead(p) ==
  /\ pc[p] = "idle"
  /\ drawnCard[p] = Null
  /\ opsLeft > 0
  /\ opsLeft' = opsLeft - 1
  /\ IF Len(deck) = 0
       THEN /\ lastCall' = Call("drawFromDeck", p, "null")
            /\ UNCHANGED <<pc, game>>
       ELSE /\ pc' = [pc EXCEPT ![p] = "drawFromDeck"]
            /\ game' = [game EXCEPT ![p] = [NoGame EXCEPT !.deck = deck,
                                              !.currentPlayerIndex = currentPlayerIndex,
                                              !.status = status]]
            /\ UNCHANGED lastCall
  /\ UNCHANGED <<docVars, drawnCard, drawnBy, startTimer, endGameTimers>>

DrawFromDeckWrite(p) ==
  /\ pc[p] = "drawFromDeck"
  /\ LET drawn == game[p].deck[1]
         updatedDeck == Tail(game[p].deck)
     IN /\ deck' = updatedDeck
        /\ drawnCard' = [drawnCard EXCEPT ![p] = drawn]
        /\ drawnBy' = [drawnBy EXCEPT ![p] = [op |-> "drawFromDeck", seen |-> Len(game[p].deck)]]
  /\ pc' = [pc EXCEPT ![p] = "idle"]
  /\ game' = [game EXCEPT ![p] = NoGame]
  /\ lastCall' = Call("drawFromDeck", p, "card")
  /\ UNCHANGED <<discardPile, players, currentPlayerIndex, status, activeAbility, winner,
                 startTimer, endGameTimers, opsLeft>>

(***************************************************************************)
(* pickFromDiscard: getDoc, then updateDoc of discardPile.                 *)
(***************************************************************************)
PickFromDiscardRead(p) ==
  /\ pc[p] = "idle"
  /\ drawnCard[p] = Null
  /\ opsLeft > 0
  /\ opsLeft' = opsLeft - 1
  /\ IF Len(discardPile) = 0
       THEN /\ lastCall' = Call("pickFromDiscard", p, "null")
            /\ UNCHANGED <<pc, game>>
       ELSE /\ pc' = [pc EXCEPT ![p] = "pickFromDiscard"]
            /\ game' = [game EXCEPT ![p] = [NoGame EXCEPT !.discardPile = discardPile,
                                              !.currentPlayerIndex = currentPlayerIndex,
                                              !.status = status]]
            /\ UNCHANGED lastCall
  /\ UNCHANGED <<docVars, drawnCard, drawnBy, startTimer, endGameTimers>>

PickFromDiscardWrite(p) ==
  /\ pc[p] = "pickFromDiscard"
  /\ LET picked == game[p].discardPile[1]
         updatedDiscardPile == Tail(game[p].discardPile)
     IN /\ discardPile' = SeqMap(toFirestoreCard, updatedDiscardPile)
        /\ drawnCard' = [drawnCard EXCEPT ![p] = picked]
        /\ drawnBy' = [drawnBy EXCEPT ![p] =
                         [op |-> "pickFromDiscard", seen |-> Len(game[p].discardPile)]]
  /\ pc' = [pc EXCEPT ![p] = "idle"]
  /\ game' = [game EXCEPT ![p] = NoGame]
  /\ lastCall' = Call("pickFromDiscard", p, "card")
  /\ UNCHANGED <<deck, players, currentPlayerIndex, status, activeAbility, winner,
                 startTimer, endGameTimers, opsLeft>>

(***************************************************************************)
(* The two discards: one transaction each.                                 *)
(***************************************************************************)
\* discardOutcome without the branch of 'double-turn': the jack awaits a target
\* like the other abilities
discardOutcomeJackPending(discarded, playerId, st, aa, idx, playerCount) ==
  LET ability == discarded.specialAbility
  IN IF ability # NoAbility
       THEN [status |-> "awaiting-ability-target",
             activeAbility |-> [playerId |-> playerId, ability |-> ability,
                                cardId |-> discarded.id],
             currentPlayerIndex |-> idx]
       ELSE [status |-> st, activeAbility |-> aa,
             currentPlayerIndex |-> (idx + 1) % playerCount]

\* status, activeAbility and currentPlayerIndex after the card `discarded` went
\* to the discard pile (the same lines in both discards)
discardOutcome(discarded, playerId, st, aa, idx, playerCount) ==
  LET ability == discarded.specialAbility
  IN IF ability # NoAbility /\ ability = "double-turn"
       THEN [status |-> st, activeAbility |-> aa, currentPlayerIndex |-> idx]
       ELSE IF ability # NoAbility
         THEN [status |-> "awaiting-ability-target",
               activeAbility |-> [playerId |-> playerId, ability |-> ability,
                                  cardId |-> discarded.id],
               currentPlayerIndex |-> idx]
         ELSE [status |-> st, activeAbility |-> aa,
               currentPlayerIndex |-> (idx + 1) % playerCount]

\* position.row < 0 || position.row >= rows || position.col < 0 || position.col >= 3
invalidReplacePosition(rows, row, col) ==
  row < 0 \/ row >= rows \/ col < 0 \/ col >= 3

\* replaceError without the check of the slot
replaceErrorNoSlotCheck(ps, playerIndex, row, col) ==
  IF playerIndex = 0 THEN "Player not found!"
  ELSE IF invalidReplacePosition(Len(ps[playerIndex].cards) \div 3, row, col)
    THEN "Invalid replace position"
    ELSE ""

\* what discardAndReplace throws for the players it read, "" when it goes on
replaceError(ps, playerIndex, row, col) ==
  IF playerIndex = 0 THEN "Player not found!"
  ELSE IF invalidReplacePosition(Len(ps[playerIndex].cards) \div 3, row, col)
    THEN "Invalid replace position"
    ELSE IF ps[playerIndex].cards[CellAt(row, col)] = Null
      THEN "Cannot replace an empty card slot."
      ELSE ""

\* the transaction of discardAndReplace on the document doc: what it throws
\* ("" when it commits) and the document after it
discardAndReplace(doc, playerId, newCardFromDraw, row, col) ==
  LET ps == reconstructPlayersHands2D(doc.players)
      playerIndex == findIndex(ps, playerId)
      error == replaceError(ps, playerIndex, row, col)
  IN IF error # ""
       THEN [error |-> error, doc |-> doc]
       ELSE LET replacedCard == ps[playerIndex].cards[CellAt(row, col)]
                newPlayers ==
                  [ps EXCEPT ![playerIndex].cards[CellAt(row, col)] =
                               [newCardFromDraw EXCEPT !.isFaceUp = FALSE]]
                cardToDiscard == [replacedCard EXCEPT !.isFaceUp = TRUE]
                newDiscardPile == <<cardToDiscard>> \o doc.discardPile
                out == discardOutcome(cardToDiscard, playerId, doc.status,
                                      doc.activeAbility, doc.currentPlayerIndex, Len(ps))
            IN [error |-> "",
                doc |-> [doc EXCEPT
                  !.players = flattenPlayersHandsForFirestore(
                                setCurrentTurn(newPlayers, out.currentPlayerIndex)),
                  !.discardPile = SeqMap(toFirestoreCard, newDiscardPile),
                  !.currentPlayerIndex = out.currentPlayerIndex,
                  !.status = out.status,
                  !.activeAbility = out.activeAbility]]

DiscardAndReplace(p, row, col) ==
  /\ drawnCard[p] # Null
  /\ opsLeft > 0
  /\ opsLeft' = opsLeft - 1
  /\ LET r == discardAndReplace(Doc, p, drawnCard[p], row, col)
     IN IF r.error # ""
          THEN /\ lastCall' = Call("discardAndReplace", p, r.error)
               /\ UNCHANGED <<docVars, drawnCard, drawnBy>>
          ELSE /\ Commit(r.doc)
               /\ drawnCard' = [drawnCard EXCEPT ![p] = Null]
               /\ drawnBy' = [drawnBy EXCEPT ![p] = NotDrawn]
               /\ lastCall' = Call("discardAndReplace", p, "ok")
  /\ UNCHANGED <<pc, game, startTimer, endGameTimers>>

\* the transaction of discardDrawnCard on the document doc: the document after it
discardDrawnCard(doc, playerId, cardToDiscard) ==
  LET ps == reconstructPlayersHands2D(doc.players)
      discardedCard == [cardToDiscard EXCEPT !.isFaceUp = TRUE]
      newDiscardPile == <<discardedCard>> \o doc.discardPile
      out == discardOutcome(discardedCard, playerId, doc.status, doc.activeAbility,
                            doc.currentPlayerIndex, Len(ps))
  IN [doc EXCEPT
        !.players = flattenPlayersHandsForFirestore(
                      setCurrentTurn(ps, out.currentPlayerIndex)),
        !.discardPile = SeqMap(toFirestoreCard, newDiscardPile),
        !.currentPlayerIndex = out.currentPlayerIndex,
        !.status = out.status,
        !.activeAbility = out.activeAbility]

DiscardDrawnCard(p) ==
  /\ drawnCard[p] # Null
  /\ opsLeft > 0
  /\ opsLeft' = opsLeft - 1
  /\ Commit(discardDrawnCard(Doc, p, drawnCard[p]))
  /\ drawnCard' = [drawnCard EXCEPT ![p] = Null]
  /\ drawnBy' = [drawnBy EXCEPT ![p] = NotDrawn]
  /\ lastCall' = Call("discardDrawnCard", p, "ok")
  /\ UNCHANGED <<pc, game, startTimer, endGameTimers>>

(***************************************************************************)
(* executeAbility: one transaction.                                        *)
(***************************************************************************)
\* the argument targets; an absent position or player id is hasOwn = FALSE,
\* hasOpponent = FALSE, opponentPlayerId = NoId
NoTargets ==
  [hasOwn |-> FALSE, ownRow |-> 0, ownCol |-> 0,
   opponentPlayerId |-> NoId, hasOpponent |-> FALSE, oppRow |-> 0, oppCol |-> 0]

inGrid(ps, i, row, col) ==
  row >= 0 /\ row < Len(ps[i].cards) \div 3 /\ col >= 0 /\ col < 3

\* the players after the 'flip-opponent' block
applyFlip(ps, ability, targets) ==
  IF ability = "flip-opponent" /\ targets.opponentPlayerId # NoId /\ targets.hasOpponent
    THEN LET opponentIndex == findIndex(ps, targets.opponentPlayerId)
             cell == CellAt(targets.oppRow, targets.oppCol)
         IN IF opponentIndex # 0
               /\ inGrid(ps, opponentIndex, targets.oppRow, targets.oppCol)
               /\ ps[opponentIndex].cards[cell] # Null
              THEN [ps EXCEPT ![opponentIndex].cards[cell].isFaceUp = TRUE]
              ELSE ps
    ELSE ps

\* the players after the 'swap' block
applySwap(ps, ability, actingPlayerId, targets) ==
  IF ability = "swap" /\ targets.hasOwn /\ targets.opponentPlayerId # NoId
     /\ targets.hasOpponent
    THEN LET playerIndex == findIndex(ps, actingPlayerId)
             opponentIndex == findIndex(ps, targets.opponentPlayerId)
             own == CellAt(targets.ownRow, targets.ownCol)
             opp == CellAt(targets.oppRow, targets.oppCol)
         IN IF playerIndex # 0 /\ opponentIndex # 0
               /\ inGrid(ps, playerIndex, targets.ownRow, targets.ownCol)
               /\ inGrid(ps, opponentIndex, targets.oppRow, targets.oppCol)
              THEN LET ownCard == ps[playerIndex].cards[own]
                       opponentCard == ps[opponentIndex].cards[opp]
                       ps1 == [ps EXCEPT ![playerIndex].cards[own] = opponentCard]
                   IN [ps1 EXCEPT ![opponentIndex].cards[opp] = ownCard]
              ELSE ps
    ELSE ps

\* the transaction of executeAbility on the document doc: the document after it
executeAbility(doc, ability, actingPlayerId, targets) ==
  LET ps0 == reconstructPlayersHands2D(doc.players)
      ps1 == applyFlip(ps0, ability, targets)
      ps2 == applySwap(ps1, ability, actingPlayerId, targets)
      nextIndex == (doc.currentPlayerIndex + 1) % Len(ps2)
  IN [doc EXCEPT
        !.players = flattenPlayersHandsForFirestore(setCurrentTurn(ps2, nextIndex)),
        !.status = "playing",
        !.activeAbility = NoActiveAbility,
        !.currentPlayerIndex = nextIndex]

ExecuteAbility(ability, actingPlayerId, targets) ==
  /\ opsLeft > 0
  /\ opsLeft' = opsLeft - 1
  /\ Commit(executeAbility(Doc, ability, actingPlayerId, targets))
  /\ lastCall' = Call("executeAbility", actingPlayerId,
                      IF activeAbility # NoActiveAbility THEN "resolved" ELSE "ok")
  /\ UNCHANGED <<drawnCard, drawnBy, pc, game, startTimer, endGameTimers>>

(***************************************************************************)
(* recallCards: getDoc, then updateDoc of players and discardPile.  It     *)
(* works on gameDoc.data() as it is stored, without                        *)
(* reconstructPlayersHands2D: cards is the flattened list of objects       *)
(* {card, row, col}.                                                       *)
(***************************************************************************)
\* cards[pos.row][pos.col] on the flattened list: cards[pos.row] is an object
\* {card, row, col}, and it has no property named by the number pos.col
storedCardsAt(cards, row, col) == Null

\* an element of the flattened list handed to toFirestoreCard as the card
itemAsCard(item) == MetadataObject

\* the forEach over positions: the cards it recalls, in order
RECURSIVE recalledCards(_, _)
recalledCards(cards, positions) ==
  IF positions = <<>> THEN <<>>
  ELSE LET pos == Head(positions)
           card == storedCardsAt(cards, pos.row, pos.col)
       IN IF card # Null
            THEN <<[card EXCEPT !.isFaceUp = TRUE]>> \o recalledCards(cards, Tail(positions))
            ELSE recalledCards(cards, Tail(positions))

\* the forEach over positions: the cells it sets to null
vacatedCells(cards, positions) ==
  {CellAt(positions[k].row, positions[k].col) : k \in
     {j \in 1..Len(positions) :
        storedCardsAt(cards, positions[j].row, positions[j].col) # Null}}

\* the players recallCards writes
recallPlayers(ps, playerIndex, positions) ==
  [n \in 1..Len(ps) |->
     [ps[n] EXCEPT !.cards =
        [c \in 1..Len(ps[n].cards) |->
           IF n = playerIndex /\ c \in vacatedCells(ps[n].cards, positions)
             THEN toFirestoreCard(Null)
             ELSE toFirestoreCard(itemAsCard(ps[n].cards[c]))]]]

RecallInputs == {<<[row |-> RowOf(3 * Rows), col |-> ColOf(3 * Rows)]>>}

RecallCardsRead(p, positions) ==
  /\ pc[p] = "idle"
  /\ opsLeft > 0
  /\ opsLeft' = opsLeft - 1
  /\ pc' = [pc EXCEPT ![p] = "recallCards"]
  /\ game' = [game EXCEPT ![p] =
                [NoGame EXCEPT !.players = players, !.discardPile = discardPile,
                               !.currentPlayerIndex = currentPlayerIndex,
                               !.positions = positions]]
  /\ UNCHANGED <<docVars, drawnCard, drawnBy, startTimer, endGameTimers, lastCall>>

RecallCardsWrite(p) ==
  /\ pc[p] = "recallCards"
  /\ LET playerIndex == findIndex(game[p].players, p)
         recalled == recalledCards(game[p].players[playerIndex].cards, game[p].positions)
     IN /\ players' = recallPlayers(game[p].players, playerIndex, game[p].positions)
        /\ discardPile' = recalled \o game[p].discardPile
  /\ pc' = [pc EXCEPT ![p] = "idle"]
  /\ game' = [game EXCEPT ![p] = NoGame]
  /\ lastCall' = Call("recallCards", p, "ok")
  /\ UNCHANGED <<deck, currentPlayerIndex, status, activeAbility, winner,
                 drawnCard, drawnBy, startTimer, endGameTimers, opsLeft>>

(***************************************************************************)
(* callStop: getDoc, then updateDoc of players and status; then it         *)
(* schedules endGame.                                                      *)
(***************************************************************************)
CallStopRead(p) ==
  /\ pc[p] = "idle"
  /\ opsLeft > 0
  /\ opsLeft' = opsLeft - 1
  /\ pc' = [pc EXCEPT ![p] = "callStop"]
  /\ game' = [game EXCEPT ![p] = [NoGame EXCEPT !.players = players,
                                              !.currentPlayerIndex = currentPlayerIndex]]
  /\ UNCHANGED <<docVars, drawnCard, drawnBy, startTimer, endGameTimers, lastCall>>

\* the players callStop writes
stopPlayers(ps, playerId) ==
  LET ps2D == reconstructPlayersHands2D(ps)
      playerIndex == findIndex(ps2D, playerId)
  IN flattenPlayersHandsForFirestore([ps2D EXCEPT ![playerIndex].hasCalledStop = TRUE])

CallStopWrite(p) ==
  /\ pc[p] = "callStop"
  /\ players' = stopPlayers(game[p].players, p)
  /\ status' = "ending"
  /\ endGameTimers' = endGameTimers + 1
  /\ pc' = [pc EXCEPT ![p] = "idle"]
  /\ game' = [game EXCEPT ![p] = NoGame]
  /\ lastCall' = Call("callStop", p, "ok")
  /\ UNCHANGED <<deck, discardPile, currentPlayerIndex, activeAbility, winner,
                 drawnCard, drawnBy, startTimer, opsLeft>>

(***************************************************************************)
(* endGame: one transaction, run by the timer callStop set.                *)
(***************************************************************************)
\* revealAndScore adding to the score the player already has
revealAndScoreAdding(ps) ==
  [n \in 1..Len(ps) |->
     LET shown == [c \in 1..Len(ps[n].cards) |->
                     IF ps[n].cards[c] # Null
                       THEN [ps[n].cards[c] EXCEPT !.isFaceUp = TRUE]
                       ELSE Null]
     IN [ps[n] EXCEPT !.cards = shown,
                      !.score = ps[n].score + calculatePlayerScore(shown)]]

\* every card face up, and the score of every player
revealAndScore(ps) ==
  [n \in 1..Len(ps) |->
     LET shown == [c \in 1..Len(ps[n].cards) |->
                     IF ps[n].cards[c] # Null
                       THEN [ps[n].cards[c] EXCEPT !.isFaceUp = TRUE]
                       ELSE Null]
     IN [ps[n] EXCEPT !.cards = shown, !.score = calculatePlayerScore(shown)]]

\* players.reduce((prev, current) => prev.score < current.score ? prev : current)
RECURSIVE reduceWinner(_, _, _)
reduceWinner(ps, prev, k) ==
  IF k > Len(ps) THEN prev
  ELSE reduceWinner(ps, IF prev.score < ps[k].score THEN prev ELSE ps[k], k + 1)

\* endGame that does its work only in a game that is 'ending'
endGameWhenEnding(doc) ==
  LET ps == revealAndScore(reconstructPlayersHands2D(doc.players))
  IN IF doc.status = "ending"
       THEN [doc EXCEPT
               !.players = flattenPlayersHandsForFirestore(ps),
               !.status = "finished",
               !.winner = reduceWinner(ps, ps[1], 2).id]
       ELSE doc

\* the transaction of endGame on the document doc: the document after it
endGame(doc) ==
  LET ps == revealAndScore(reconstructPlayersHands2D(doc.players))
  IN [doc EXCEPT
        !.players = flattenPlayersHandsForFirestore(ps),
        !.status = "finished",
        !.winner = reduceWinner(ps, ps[1], 2).id]

EndGame ==
  /\ endGameTimers > 0
  /\ endGameTimers' = endGameTimers - 1
  /\ Commit(endGame(Doc))
  /\ lastCall' = Call("endGame", NoId, IF lastCall.op = "endGame" THEN "repeated" ELSE "ok")
  /\ UNCHANGED <<drawnCard, drawnBy, pc, game, startTimer, opsLeft>>

(***************************************************************************)
(* The callback startGame schedules: updateDoc of status.                  *)
(***************************************************************************)
StartTimer ==
  /\ startTimer
  /\ startTimer' = FALSE
  /\ status' = "playing"
  /\ lastCall' = Call("startTimer", NoId, "ok")
  /\ UNCHANGED <<deck, discardPile, players, currentPlayerIndex, activeAbility, winner,
                 drawnCard, drawnBy, pc, game, endGameTimers, opsLeft>>

(***************************************************************************)
(* Inputs of the calls.                                                    *)
(***************************************************************************)
\* positions given to discardAndReplace: the cells of TargetCells, and one step
\* outside the grid on every side
ReplacePositions ==
  {[row |-> RowOf(c), col |-> ColOf(c)] : c \in TargetCells}
    \cup {[row |-> 0 - 1, col |-> 0], [row |-> Rows, col |-> 0],
          [row |-> 0, col |-> 0 - 1], [row |-> 0, col |-> 3]}

\* targets of a 'flip-opponent': a card of player q
FlipTarget(q, c) ==
  [NoTargets EXCEPT !.opponentPlayerId = q, !.hasOpponent = TRUE,
                    !.oppRow = RowOf(c), !.oppCol = ColOf(c)]

\* targets of a 'swap': the caller's own card at cell own, and a card of player q
SwapTarget(own, q, c) ==
  [FlipTarget(q, c) EXCEPT !.hasOwn = TRUE, !.ownRow = RowOf(own), !.ownCol = ColOf(own)]

\* the targets the calls of the model name: the last card of the player after
\* the caller, and for a swap the caller's first card
NextPlayer(p) == (p % NumPlayers) + 1
FlipTargets(p) == {FlipTarget(NextPlayer(p), 3 * Rows)}
SwapTargets(p) == {SwapTarget(1, NextPlayer(p), 3 * Rows)}

Next ==
  \/ \E p \in PlayerIds : DrawFromDeckRead(p)
  \/ \E p \in PlayerIds : DrawFromDeckWrite(p)
  \/ \E p \in PlayerIds : PickFromDiscardRead(p)
  \/ \E p \in PlayerIds : PickFromDiscardWrite(p)
  \/ \E p \in PlayerIds, pos \in ReplacePositions : DiscardAndReplace(p, pos.row, pos.col)
  \/ \E p \in PlayerIds : DiscardDrawnCard(p)
  \/ \E p \in PlayerIds : ExecuteAbility("peek-self", p, NoTargets)
  \/ \E p \in PlayerIds : \E t \in FlipTargets(p) : ExecuteAbility("flip-opponent", p, t)
  \/ \E p \in PlayerIds : \E t \in SwapTargets(p) : ExecuteAbility("swap", p, t)
  \/ \E p \in PlayerIds, positions \in RecallInputs : RecallCardsRead(p, positions)
  \/ \E p \in PlayerIds : RecallCardsWrite(p)
  \/ \E p \in PlayerIds : CallStopRead(p)
  \/ \E p \in PlayerIds : CallStopWrite(p)
  \/ EndGame
  \/ StartTimer

Spec == Init /\ [][Next]_vars

\* the same game, with more calls
InitDeep == InitWith(TotalCards, MaxOpsDeep)
SpecDeep == InitDeep /\ [][Next]_vars

\* the game when every endGame that callStop schedules does run: weak fairness
\* of EndGame, with its enabling condition written out (EndGame can run exactly
\* when endGameTimers > 0, and every run of it changes endGameTimers)
SpecFair ==
  Init /\ [][Next]_vars /\ ([]<>(endGameTimers = 0) \/ []<><<EndGame>>_vars)

(***************************************************************************)
(* Where the cards are.                                                    *)
(***************************************************************************)
RECURSIVE Flatten(_)
Flatten(ss) == IF ss = <<>> THEN <<>> ELSE Head(ss) \o Flatten(Tail(ss))

\* the cards of all grids, empty cells left out
GridCards ==
  SelectSeq(Flatten([n \in 1..Len(players) |-> players[n].cards]), LAMBDA c : c # Null)

\* the cards the players hold
HeldCards ==
  SelectSeq([p \in PlayerIds |-> drawnCard[p]], LAMBDA c : c # Null)

\* how often the card id occurs in the sequence of cards s
Occurrences(s, id) == Cardinality({i \in 1..Len(s) : s[i].id = id})

\* the ids createDeck gave to the cards of the game
DeckIds == {ShuffleOrder[i] + 1 : i \in 1..TotalCards}

IdsOf(s) == {s[i].id : i \in 1..Len(s)}

(***************************************************************************)
(* C1.  Card conservation: in every reachable state the cards of the deck, *)
(* the discard pile and the grids are the cards createDeck made, each      *)
(* once.  A card a player holds is counted as well, so that a draw alone   *)
(* does not break the statement.                                           *)
(***************************************************************************)
C1_CardConservation ==
  LET everywhere == deck \o discardPile \o GridCards \o HeldCards
  IN /\ IdsOf(everywhere) = DeckIds
     /\ \A id \in DeckIds : Occurrences(everywhere, id) = 1

(***************************************************************************)
(* C2.  Concurrent draw safety: two drawFromDeck calls that both read a    *)
(* deck of exactly one card never both return that card.                   *)
(***************************************************************************)
C2_ConcurrentDrawSafety ==
  \A p, q \in PlayerIds :
    (/\ p # q
     /\ drawnBy[p] = [op |-> "drawFromDeck", seen |-> 1]
     /\ drawnBy[q] = [op |-> "drawFromDeck", seen |-> 1])
    => drawnCard[p].id # drawnCard[q].id

(***************************************************************************)
(* C3.  Atomic read and write: no operation writes a document it computed  *)
(* from a read that is stale, that is, when a getDoc/updateDoc method      *)
(* writes, the fields it read still have the values it read.               *)
(***************************************************************************)
\* the fields the call of player p read are as it read them
ReadStillCurrent(p) ==
  CASE pc[p] = "drawFromDeck" -> game[p].deck = deck
    [] pc[p] = "pickFromDiscard" -> game[p].discardPile = discardPile
    [] pc[p] = "recallCards" -> game[p].players = players /\ game[p].discardPile = discardPile
    [] pc[p] = "callStop" -> game[p].players = players
    [] OTHER -> TRUE

C3_AtomicOperations ==
  [][\A p \in PlayerIds : (pc[p] # "idle" /\ pc'[p] = "idle") => ReadStillCurrent(p)]_vars

(***************************************************************************)
(* C4.  Single current player: while status is 'playing' or                *)
(* 'awaiting-ability-target', exactly one player has isCurrentTurn, the    *)
(* player at currentPlayerIndex.                                           *)
(***************************************************************************)
C4_SingleCurrentPlayer ==
  status \in {"playing", "awaiting-ability-target"}
    => \A i \in 1..Len(players) : players[i].isCurrentTurn <=> (i - 1 = currentPlayerIndex)
(***************************************************************************)
(* Steps of a behaviour, told by what they leave in lastCall.              *)
(***************************************************************************)
\* the step is a whole call of the transaction method op
TransactionStep(op) ==
  /\ opsLeft' = opsLeft - 1
  /\ pc' = pc
  /\ lastCall'.op = op

\* the step is a discard that committed
DiscardStep ==
  \/ TransactionStep("discardDrawnCard")
  \/ TransactionStep("discardAndReplace") /\ lastCall'.result = "ok"

\* the step is the updateDoc of player p's call of a getDoc/updateDoc method
WriteStep(p) == pc[p] # "idle" /\ pc'[p] = "idle"

\* the player whose turn it is in a document with this index
CurrentPlayerId(index) == players[index + 1].id

(***************************************************************************)
(* C5.  Turn advance: a discard made in status 'playing' advances          *)
(* currentPlayerIndex by one modulo the number of players when the card    *)
(* has no ability and leaves it unchanged when the card has one; while an  *)
(* ability awaits its target the index stays unchanged until               *)
(* executeAbility is called, and that call advances it by one.             *)
(***************************************************************************)
C5_TurnAdvance ==
  [][LET advanced == (currentPlayerIndex + 1) % Len(players)
     IN /\ (status = "playing" /\ DiscardStep)
             => IF Head(discardPile').specialAbility = NoAbility
                  THEN currentPlayerIndex' = advanced
                  ELSE currentPlayerIndex' = currentPlayerIndex
        /\ (status = "awaiting-ability-target" /\ ~TransactionStep("executeAbility"))
             => currentPlayerIndex' = currentPlayerIndex
        /\ (status = "awaiting-ability-target" /\ TransactionStep("executeAbility"))
             => currentPlayerIndex' = advanced]_vars

(***************************************************************************)
(* C6.  activeAbility is non-null exactly when status is                   *)
(* 'awaiting-ability-target', in every reachable state.                    *)
(***************************************************************************)
C6_ActiveAbilityIffAwaiting ==
  (activeAbility # NoActiveAbility) <=> (status = "awaiting-ability-target")

(***************************************************************************)
(* C7.  Ability actor enforcement: an executeAbility call by a player      *)
(* other than activeAbility.playerId of the document it reads leaves the   *)
(* document unchanged.                                                     *)
(***************************************************************************)
C7_AbilityActorEnforced ==
  [][(/\ TransactionStep("executeAbility")
      /\ activeAbility # NoActiveAbility
      /\ lastCall'.playerId # activeAbility.playerId)
     => UNCHANGED docVars]_vars

(***************************************************************************)
(* C8.  Turn gating: a draw, pick, discard, replace or stop by a player    *)
(* who is not players[currentPlayerIndex] in the document the call read    *)
(* leaves the document unchanged.                                          *)
(***************************************************************************)
C8_TurnGating ==
  [][/\ (DiscardStep /\ lastCall'.playerId # CurrentPlayerId(currentPlayerIndex))
          => UNCHANGED docVars
     /\ \A p \in PlayerIds :
          (/\ WriteStep(p)
           /\ pc[p] \in {"drawFromDeck", "pickFromDiscard", "callStop"}
           /\ p # CurrentPlayerId(game[p].currentPlayerIndex))
          => UNCHANGED docVars]_vars

(***************************************************************************)
(* Games in which a grid has an empty cell.  A cell is empty (null) where  *)
(* a card was recalled; discardAndReplace then has an empty slot to        *)
(* refuse.  The game is in play: the start timer has run.                  *)
(***************************************************************************)
\* the document doc with cell c of player q emptied, its card face up on the
\* discard pile; doc itself when q is no player
vacated(doc, q, c) ==
  IF q = NoId THEN doc
  ELSE [doc EXCEPT
          !.players[q].cards[c] = Null,
          !.discardPile = <<[doc.players[q].cards[c] EXCEPT !.isFaceUp = TRUE]>> \o @]

InitVacated ==
  \E q \in PlayerIds \cup {NoId} : \E c \in TargetCells :
    LET doc == vacated(startGame(NumPlayers, TotalCards), q, c)
    IN /\ deck = doc.deck
       /\ discardPile = doc.discardPile
       /\ players = doc.players
       /\ currentPlayerIndex = doc.currentPlayerIndex
       /\ status = "playing"
       /\ activeAbility = NoActiveAbility
       /\ winner = doc.winner
       /\ drawnCard = [p \in PlayerIds |-> Null]
       /\ drawnBy = [p \in PlayerIds |-> NotDrawn]
       /\ pc = [p \in PlayerIds |-> "idle"]
       /\ game = [p \in PlayerIds |-> NoGame]
       /\ startTimer = FALSE
       /\ endGameTimers = 0
       /\ lastCall = NoCall
       /\ opsLeft = MaxOps

\* taking a card and putting it into a grid or onto the discard pile
NextReplace ==
  \/ \E p \in PlayerIds : DrawFromDeckRead(p)
  \/ \E p \in PlayerIds : DrawFromDeckWrite(p)
  \/ \E p \in PlayerIds : PickFromDiscardRead(p)
  \/ \E p \in PlayerIds : PickFromDiscardWrite(p)
  \/ \E p \in PlayerIds, pos \in ReplacePositions : DiscardAndReplace(p, pos.row, pos.col)
  \/ \E p \in PlayerIds : DiscardDrawnCard(p)

SpecReplace == InitVacated /\ [][NextReplace]_vars

(***************************************************************************)
(* C9.  Replace validation: a discardAndReplace call that names an empty   *)
(* cell of the caller's grid fails with 'Cannot replace an empty card      *)
(* slot.', a call that names a row outside 0..rows-1 or a column outside   *)
(* 0..2 fails with 'Invalid replace position', and both leave the document *)
(* unchanged.                                                              *)
(***************************************************************************)
C9_ReplaceValidation ==
  [][TransactionStep("discardAndReplace") =>
       \A pos \in ReplacePositions :
         DiscardAndReplace(lastCall'.playerId, pos.row, pos.col) =>
           LET cards == players[findIndex(players, lastCall'.playerId)].cards
               rows == Len(cards) \div 3
               inside == pos.row \in 0..(rows - 1) /\ pos.col \in 0..2
           IN /\ ~inside
                   => /\ lastCall'.result = "Invalid replace position"
                      /\ UNCHANGED docVars
              /\ (inside /\ cards[CellAt(pos.row, pos.col)] = Null)
                   => /\ lastCall'.result = "Cannot replace an empty card slot."
                      /\ UNCHANGED docVars]_vars

\* a call that named an empty cell has been refused
C9_EmptySlotRefused ==
  /\ lastCall.op = "discardAndReplace"
  /\ lastCall.result = "Cannot replace an empty card slot."
  /\ \E c \in CellIndexes : players[findIndex(players, lastCall.playerId)].cards[c] = Null

(***************************************************************************)
(* C10.  Status moves along starting, playing and awaiting-ability-target, *)
(* ending, finished: it never goes from 'ending' or 'finished' back to     *)
(* 'playing' or 'awaiting-ability-target', and 'finished' is never left.   *)
(***************************************************************************)
C10_StatusMovesForward ==
  [][/\ status \in {"ending", "finished"}
          => status' \notin {"starting", "playing", "awaiting-ability-target"}
     /\ status = "finished" => status' = "finished"
     /\ status \in {"playing", "awaiting-ability-target"} => status' # "starting"]_vars
(***************************************************************************)
(* The end of the game.                                                    *)
(***************************************************************************)
\* the score of every player in the document
Scores == [i \in 1..Len(players) |-> players[i].score]

(***************************************************************************)
(* C11.  Once status is 'finished', winner and the score of every player   *)
(* keep their values in every later state.                                 *)
(***************************************************************************)
C11_FinishedIsFinal ==
  [][status = "finished" => (winner' = winner /\ Scores' = Scores)]_vars

(***************************************************************************)
(* C12.  Idempotent end-game: an endGame that runs directly after another  *)
(* endGame leaves winner and the score of every player as the first one    *)
(* set them.                                                               *)
(***************************************************************************)
C12_EndGameIdempotent ==
  [][(lastCall.op = "endGame" /\ EndGame) => (winner' = winner /\ Scores' = Scores)]_vars

\* endGame has run twice in a row, and there is a winner
C12_EndGameRepeated ==
  /\ lastCall = Call("endGame", NoId, "repeated")
  /\ status = "finished"
  /\ winner # NoWinner

(***************************************************************************)
(* C13.  End-game is triggered once per game: however often callStop is    *)
(* called, at most one endGame is scheduled at a time, and endGame does    *)
(* not run in a game in which it has run (winner is written by endGame     *)
(* alone, so a winner tells that it has run).                              *)
(***************************************************************************)
C13_EndGameOnce ==
  [][/\ endGameTimers' <= 1
     /\ EndGame => winner = NoWinner]_vars

(***************************************************************************)
(* C14.  When endGame has run, winner is the player with the minimum       *)
(* score, and of several players with that score the first in player       *)
(* order.                                                                  *)
(***************************************************************************)
\* the position of the first player whose score no other player's is below
FirstMinimum ==
  CHOOSE i \in 1..Len(players) :
    /\ \A j \in 1..Len(players) : players[i].score <= players[j].score
    /\ \A j \in 1..(i - 1) : players[j].score > players[i].score

C14_WinnerIsFirstMinimum ==
  lastCall.op = "endGame" => winner = players[FirstMinimum].id

(***************************************************************************)
(* C15.  No replay of an ability: an executeAbility call that arrives      *)
(* after executeAbility has resolved the pending ability, when no ability  *)
(* is pending, leaves the document unchanged.                              *)
(***************************************************************************)
C15_NoAbilityReplay ==
  [][(/\ TransactionStep("executeAbility")
      /\ lastCall.op = "executeAbility"
      /\ lastCall.result = "resolved"
      /\ activeAbility = NoActiveAbility)
     => UNCHANGED docVars]_vars

(***************************************************************************)
(* C16.  Wrong-phase rejection: a discard, a replace, a draw or a pick     *)
(* made when the status the call reads is not 'playing' leaves the         *)
(* document unchanged.                                                     *)
(***************************************************************************)
C16_WrongPhaseRejected ==
  [][/\ (DiscardStep /\ status # "playing") => UNCHANGED docVars
     /\ \A p \in PlayerIds :
          (/\ WriteStep(p)
           /\ pc[p] \in {"drawFromDeck", "pickFromDiscard"}
           /\ game[p].status # "playing")
          => UNCHANGED docVars]_vars

(***************************************************************************)
(* C17.  When callStop has set status 'ending' and every scheduled endGame *)
(* does run, the game comes to status 'finished' with a winner and every   *)
(* card of every grid face up, whatever calls come in between.             *)
(***************************************************************************)
AllFaceUp ==
  \A i \in 1..Len(players) : \A c \in 1..Len(players[i].cards) :
    players[i].cards[c] # Null => players[i].cards[c].isFaceUp

C17_EndingLeadsToFinished ==
  (status = "ending") ~> (status = "finished" /\ winner # NoWinner /\ AllFaceUp)

\* a stop was called, and endGame has finished the game
C17_FinishedAfterStop ==
  /\ lastCall.op = "endGame"
  /\ \E i \in 1..Len(players) : players[i].hasCalledStop
  /\ status = "finished"
  /\ winner # NoWinner
  /\ AllFaceUp

\* C18: the deferred starting -> playing transition that startGame schedules
\* changes status only when status is still 'starting'; run in any other
\* status it leaves the document as it was
C18_StartTimerSafe ==
  [][StartTimer => (status = "starting" \/ UNCHANGED docVars)]_vars

\* C19: once status is 'finished', no player has isCurrentTurn = true
C19_NoTurnWhenFinished ==
  status = "finished" => \A i \in 1..Len(players) : ~players[i].isCurrentTurn

(***************************************************************************)
(* Scoring.  The grids calculatePlayerScore is given: the first player's   *)
(* grid holds, cell by cell, a card face up, the same card face down, or   *)
(* nothing.  The game is then ended by callStop and the endGame it         *)
(* schedules, which scores the grid.                                       *)
(***************************************************************************)
\* the cards of the grids, as positions in the deck createDeck builds: the ace
\* of spades, 10 of hearts, king of clubs and a joker, then the 7 of diamonds,
\* queen of spades, 2 of clubs, 9 of diamonds and jack of clubs
ScoreCards == <<39, 9, 38, 52, 19, 50, 27, 21, 36>>

CellStates == {"empty", "down", "up"}

ScoreGrid(choice) ==
  [c \in CellIndexes |->
     IF choice[c] = "empty" THEN Null
     ELSE [createDeckCard(ScoreCards[c]) EXCEPT !.isFaceUp = (choice[c] = "up")]]

InitScore ==
  \E dealt \in {startGame(NumPlayers, TotalCards)} :
  \E choice \in [CellIndexes -> CellStates] :
  \E doc \in {[dealt EXCEPT !.players[1].cards = ScoreGrid(choice)]} :
       /\ deck = doc.deck
       /\ discardPile = doc.discardPile
       /\ players = doc.players
       /\ currentPlayerIndex = doc.currentPlayerIndex
       /\ status = "playing"
       /\ activeAbility = NoActiveAbility
       /\ winner = doc.winner
       /\ drawnCard = [p \in PlayerIds |-> Null]
       /\ drawnBy = [p \in PlayerIds |-> NotDrawn]
       /\ pc = [p \in PlayerIds |-> "idle"]
       /\ game = [p \in PlayerIds |-> NoGame]
       /\ startTimer = FALSE
       /\ endGameTimers = 0
       /\ lastCall = NoCall
       /\ opsLeft = 1

NextScore ==
  \/ \E p \in PlayerIds : CallStopRead(p)
  \/ \E p \in PlayerIds : CallStopWrite(p)
  \/ EndGame

SpecScore == InitScore /\ [][NextScore]_vars

\* the cells of a grid that hold a card
NonEmptyCells(cards) == {c \in 1..Len(cards) : cards[c] # Null}

\* the sum of the value field over the cells of the set cells
RECURSIVE ValueOver(_, _)
ValueOver(cards, cells) ==
  IF cells = {} THEN 0
  ELSE LET c == CHOOSE x \in cells : TRUE
       IN cards[c].value + ValueOver(cards, cells \ {c})

\* the grid with every card turned over
TurnedOver(cards) ==
  [c \in 1..Len(cards) |->
     IF cards[c] = Null THEN Null ELSE [cards[c] EXCEPT !.isFaceUp = ~cards[c].isFaceUp]]

\* the grid holds exactly an ace, a 10, a king and a joker
AceTenKingJoker(cards) ==
  /\ Cardinality(NonEmptyCells(cards)) = 4
  /\ {cards[c].rank : c \in NonEmptyCells(cards)} = {"A", "10", "K", "joker"}

\* C20: calculatePlayerScore of a grid is the sum of the value field over its
\* non-empty cells, whatever the isFaceUp of the cards (empty cells count 0): on
\* the grid of every player before and after endGame, and in the score endGame
\* records; a grid of exactly an ace, a 10, a king and a joker scores 15
C20_ScoreIsSumOfValues ==
  \A i \in 1..Len(players) :
    LET cards == players[i].cards
    IN /\ calculatePlayerScore(cards) = ValueOver(cards, NonEmptyCells(cards))
       /\ calculatePlayerScore(TurnedOver(cards)) = calculatePlayerScore(cards)
       /\ AceTenKingJoker(cards) => calculatePlayerScore(cards) = 15
       /\ lastCall.op = "endGame" => players[i].score = ValueOver(cards, NonEmptyCells(cards))

\* endGame has scored a grid of an ace, a 10, a king and a joker: 15
C20_ExampleScored ==
  /\ lastCall.op = "endGame"
  /\ AceTenKingJoker(players[1].cards)
  /\ players[1].score = 15

(***************************************************************************)
(* The start of a game.  Before startGame there is no game document; the   *)
(* room holds the players that joined and the game mode.  startGame builds *)
(* the deck, deals it and writes the document, with the whole deck.        *)
(***************************************************************************)
\* runs of shuffleDeck that are told apart
MaxSeed == 29
Seeds == 0..MaxSeed
\* players in the room when startGame is called
RoomSizes == 2..(NumPlayers + 1)
\* game modes of the room
GameModes == {3 * r : r \in 2..(Rows + 1)}

\* the players startGame is given
roomPlayers(playerCount) ==
  [i \in 1..playerCount |->
     [id |-> i, cards |-> <<>>, score |-> 0, isCurrentTurn |-> FALSE,
      hasCalledStop |-> FALSE]]

InitRoom ==
  \E playerCount \in RoomSizes :
    /\ deck = <<>>
    /\ discardPile = <<>>
    /\ players = roomPlayers(playerCount)
    /\ currentPlayerIndex = 0
    /\ status = "waiting"
    /\ activeAbility = NoActiveAbility
    /\ winner = NoWinner
    /\ drawnCard = [p \in PlayerIds |-> Null]
    /\ drawnBy = [p \in PlayerIds |-> NotDrawn]
    /\ pc = [p \in PlayerIds |-> "idle"]
    /\ game = [p \in PlayerIds |-> NoGame]
    /\ startTimer = FALSE
    /\ endGameTimers = 0
    /\ lastCall = NoCall
    /\ opsLeft = 1

\* startGame for the players of the room, in a room of game mode mode, when
\* shuffleDeck makes the run numbered seed
\* numberOfDecks = players.length, a pack for each player
numberOfDecksOnePerPlayer(playerCount) == playerCount

\* numberOfDecks = players.length * 2
numberOfDecksFor(playerCount) == playerCount * 2

StartGame(mode, seed) ==
  /\ status = "waiting"
  /\ \E deck0 \in {createDeckWith(numberOfDecksFor(Len(players)), seed)} :
     \E doc \in {startGameWith(deck0, Len(players), mode)} :
       /\ deck' = doc.deck
       /\ discardPile' = doc.discardPile
       /\ players' = doc.players
       /\ currentPlayerIndex' = doc.currentPlayerIndex
       /\ status' = doc.status
       /\ winner' = doc.winner
  /\ startTimer' = TRUE
  /\ lastCall' = Call("startGame", NoId, "ok")
  /\ UNCHANGED <<activeAbility, drawnCard, drawnBy, pc, game, endGameTimers, opsLeft>>

NextRoom ==
  \/ \E mode \in GameModes, seed \in Seeds : StartGame(mode, seed)
  \/ StartTimer

SpecRoom == InitRoom /\ [][NextRoom]_vars

\* the cards of the game document: those of the deck, the discard pile and the
\* grids
DocumentCards == deck \o discardPile \o GridCards

\* C21: getCardValue gives A the value 1, each of the ranks 2..9 its face value,
\* 10 the value 0, J, Q and K the value 15 and the joker -1, and every card
\* that createDeck built (every card of the document startGame writes) has
\* value = getCardValue(rank)
C21_CardValues ==
  /\ getCardValue("A") = 1
  /\ \A n \in 2..9 : getCardValue(ranks[n]) = n
  /\ getCardValue("10") = 0
  /\ \A rank \in {"J", "Q", "K"} : getCardValue(rank) = 15
  /\ getCardValue("joker") = -1
  /\ \A k \in 1..Len(DocumentCards) :
       DocumentCards[k].value = getCardValue(DocumentCards[k].rank)

\* startGame has written a document with a card of every rank, the joker too
C21_EveryRankDealt ==
  /\ lastCall.op = "startGame"
  /\ {DocumentCards[k].rank : k \in 1..Len(DocumentCards)}
       = {ranks[n] : n \in 1..Len(ranks)} \cup {"joker"}

\* C22: dealCards gives each player a grid of gameMode / 3 rows of 3 cells, all
\* filled, with the cards of the deck head in order (players in order, rows top
\* to bottom, columns left to right); the deck it returns is the rest of the
\* deck, playerCount * gameMode cards shorter; no card id is in two grids or in
\* a grid and the deck
C22_DealShape ==
  [][\A mode \in GameModes, seed \in Seeds :
       StartGame(mode, seed) =>
         \A deck0 \in {createDeckWith(Len(players) * 2, seed)} :
           LET playerCount == Len(players)
           IN /\ mode % 3 = 0
              /\ Len(players') = playerCount
              /\ \A n \in 1..playerCount :
                   /\ Len(players'[n].cards) = 3 * (mode \div 3)
                   /\ \A row \in 0..((mode \div 3) - 1), col \in 0..2 :
                        /\ players'[n].cards[CellAt(row, col)] # Null
                        /\ players'[n].cards[CellAt(row, col)].id
                             = deck0[(n - 1) * mode + 3 * row + col + 1].id
              /\ Len(deck') = Len(deck0) - playerCount * mode
              /\ \A k \in 1..Len(deck') : deck'[k].id = deck0[playerCount * mode + k].id
              /\ Cardinality(IdsOf(DocumentCards')) = Len(DocumentCards')]_vars

\* startGame has dealt two grids of 2 rows from the 216 cards of 4 packs
C22_TwoGridsDealt ==
  /\ lastCall.op = "startGame"
  /\ Len(players) = 2
  /\ \A n \in 1..2 : Cardinality({c \in 1..Len(players[n].cards) : players[n].cards[c] # Null}) = 6
  /\ Len(deck) = 216 - 12

\* the places of the deck d that hold a card of this rank and suit
PlacesOf(d, rank, suit) == {k \in 1..Len(d) : d[k].rank = rank /\ d[k].suit = suit}

\* the ability the rules give to a rank
AbilityOfRank(rank) ==
  CASE rank = "7" -> "flip-opponent"
    [] rank = "Q" -> "swap"
    [] rank = "J" -> "double-turn"
    [] rank = "K" -> "peek-self"
    [] OTHER -> NoAbility

TurnFlags == [i \in 1..Len(players) |-> players[i].isCurrentTurn]

\* C24: recallCards, by whatever player and in whatever turn, leaves
\* currentPlayerIndex, the isCurrentTurn flag of every player, status and
\* activeAbility as they were
C24_RecallKeepsTurn ==
  [][\A p \in PlayerIds :
       (WriteStep(p) /\ pc[p] = "recallCards")
         => /\ UNCHANGED <<currentPlayerIndex, status, activeAbility>>
            /\ TurnFlags' = TurnFlags]_vars

\* the step changes no grid cell but cell c of the player at index i (no cell
\* at all when i = 0), flags of the turn apart
OtherCellsUnchanged(i, c) ==
  /\ Len(players') = Len(players)
  /\ \A n \in 1..Len(players) :
       /\ Len(players'[n].cards) = Len(players[n].cards)
       /\ \A k \in 1..Len(players[n].cards) :
            (n # i \/ k # c) => players'[n].cards[k] = players[n].cards[k]

\* status, activeAbility and currentPlayerIndex after the step are those the
\* rules give for a discard of the card `discarded` by the player playerId
OutcomeOf(discarded, playerId) ==
  CASE discarded.specialAbility = NoAbility ->
         /\ UNCHANGED <<status, activeAbility>>
         /\ currentPlayerIndex' = (currentPlayerIndex + 1) % Len(players)
    [] discarded.specialAbility = "double-turn" ->
         UNCHANGED <<status, activeAbility, currentPlayerIndex>>
    [] OTHER ->
         /\ status' = "awaiting-ability-target"
         /\ activeAbility' = [playerId |-> playerId,
                              ability |-> discarded.specialAbility,
                              cardId |-> discarded.id]
         /\ currentPlayerIndex' = currentPlayerIndex

\* C25: discardAndReplace on an occupied cell of the caller's grid puts the
\* card of the cell at the head of discardPile, face up, and the held card into
\* the cell, face down; it changes no other grid cell and not the deck; whether
\* the turn advances, stays or an ability awaits its target follows from the
\* ability of the replaced card, not of the held card
C25_ReplaceEffect ==
  [][(TransactionStep("discardAndReplace") /\ lastCall'.result = "ok") =>
       \A pos \in ReplacePositions :
         DiscardAndReplace(lastCall'.playerId, pos.row, pos.col) =>
           LET p == lastCall'.playerId
               i == findIndex(players, p)
               c == CellAt(pos.row, pos.col)
           IN /\ discardPile' = <<[players[i].cards[c] EXCEPT !.isFaceUp = TRUE]>> \o discardPile
              /\ players'[i].cards[c] = [drawnCard[p] EXCEPT !.isFaceUp = FALSE]
              /\ OtherCellsUnchanged(i, c)
              /\ deck' = deck
              /\ OutcomeOf(players[i].cards[c], p)]_vars

\* C26: discardDrawnCard puts the held card at the head of discardPile, face
\* up, above the pile as it was, and changes neither the deck nor any grid cell
\* of any player
C26_DiscardDrawnEffect ==
  [][TransactionStep("discardDrawnCard") =>
       /\ discardPile' = <<[drawnCard[lastCall'.playerId] EXCEPT !.isFaceUp = TRUE]>>
                           \o discardPile
       /\ deck' = deck
       /\ OtherCellsUnchanged(0, 0)]_vars

\* C27: a discard of a card with the ability flip-opponent, swap or peek-self
\* sets status to 'awaiting-ability-target' and activeAbility to the discarding
\* player, the ability and the id of the discarded card; a discard of a
\* double-turn card leaves status and activeAbility as they were and so never
\* enters 'awaiting-ability-target'; no activeAbility is ever a double-turn
C27_AbilityDiscard ==
  [][/\ DiscardStep =>
          LET discarded == Head(discardPile')
          IN /\ discarded.specialAbility \in {"flip-opponent", "swap", "peek-self"}
                  => /\ status' = "awaiting-ability-target"
                     /\ activeAbility' = [playerId |-> lastCall'.playerId,
                                          ability |-> discarded.specialAbility,
                                          cardId |-> discarded.id]
             /\ discarded.specialAbility = "double-turn"
                  => /\ UNCHANGED <<status, activeAbility>>
                     /\ status = "playing" => status' = "playing"
                     /\ activeAbility = NoActiveAbility => activeAbility' = NoActiveAbility
     /\ activeAbility' # NoActiveAbility => activeAbility'.ability # "double-turn"]_vars

\* a double-turn card has been discarded in a game that was 'playing': the game
\* is still 'playing' and no ability is pending
C27_JackDiscarded ==
  /\ lastCall.op \in {"discardDrawnCard", "discardAndReplace"}
  /\ lastCall.result = "ok"
  /\ Head(discardPile).specialAbility = "double-turn"
  /\ status = "playing"
  /\ activeAbility = NoActiveAbility

\* C28: drawFromDeck on a deck that is not empty takes the head card off the
\* deck and returns it as the held card, and leaves currentPlayerIndex, status,
\* activeAbility, discardPile and the grids unchanged; on an empty deck it
\* returns null and leaves the document unchanged
C28_DrawEffect ==
  [][\A p \in PlayerIds :
       /\ (WriteStep(p) /\ pc[p] = "drawFromDeck")
            => /\ deck # <<>>
               /\ deck' = Tail(deck)
               /\ drawnCard'[p] = Head(deck)
               /\ UNCHANGED <<currentPlayerIndex, status, activeAbility, discardPile, players>>
       /\ (lastCall' = Call("drawFromDeck", p, "null") /\ opsLeft' = opsLeft - 1)
            => deck = <<>> /\ UNCHANGED docVars /\ drawnCard'[p] = Null]_vars

\* C29: pickFromDiscard takes the head card off discardPile and returns it as
\* the held card of a player who held none; on an empty discard pile it returns
\* no card and leaves the document unchanged
C29_PickEffect ==
  [][\A p \in PlayerIds :
       /\ (WriteStep(p) /\ pc[p] = "pickFromDiscard")
            => /\ discardPile # <<>>
               /\ discardPile' = Tail(discardPile)
               /\ drawnCard[p] = Null
               /\ drawnCard'[p] = Head(discardPile)
       /\ (lastCall' = Call("pickFromDiscard", p, "null") /\ opsLeft' = opsLeft - 1)
            => discardPile = <<>> /\ UNCHANGED docVars /\ drawnCard'[p] = drawnCard[p]]_vars

\* every card that lies face up in a grid and is in a grid after the step is
\* face up after the step
FaceUpStays ==
  \A i \in 1..Len(players) : \A c \in 1..Len(players[i].cards) :
    (players[i].cards[c] # Null /\ players[i].cards[c].isFaceUp) =>
      \A j \in 1..Len(players') : \A k \in 1..Len(players'[j].cards) :
        (players'[j].cards[k] # Null /\ players'[j].cards[k].id = players[i].cards[c].id)
          => players'[j].cards[k].isFaceUp

\* C30: executeAbility with 'flip-opponent' on a cell in the grid of a player
\* turns the card of the cell face up and changes no other cell; on an empty
\* cell it changes no grid; either way it sets status to 'playing', clears
\* activeAbility and advances the turn by one; and a card that is face up in a
\* grid stays face up for as long as it is in a grid
C30_FlipEffect ==
  [][/\ TransactionStep("executeAbility") =>
          \A t \in FlipTargets(lastCall'.playerId) :
            ExecuteAbility("flip-opponent", lastCall'.playerId, t) =>
              LET i == findIndex(players, t.opponentPlayerId)
                  c == CellAt(t.oppRow, t.oppCol)
              IN /\ players'[i].cards[c] =
                      IF players[i].cards[c] = Null THEN Null
                      ELSE [players[i].cards[c] EXCEPT !.isFaceUp = TRUE]
                 /\ OtherCellsUnchanged(i, c)
                 /\ status' = "playing"
                 /\ activeAbility' = NoActiveAbility
                 /\ currentPlayerIndex' = (currentPlayerIndex + 1) % Len(players)
     /\ FaceUpStays]_vars

\* the step changes no grid cell but cell a of the player at index i and cell b
\* of the player at index j
OtherCellsUnchanged2(i, a, j, b) ==
  /\ Len(players') = Len(players)
  /\ \A n \in 1..Len(players) :
       /\ Len(players'[n].cards) = Len(players[n].cards)
       /\ \A k \in 1..Len(players[n].cards) :
            ((n # i \/ k # a) /\ (n # j \/ k # b))
              => players'[n].cards[k] = players[n].cards[k]

\* the grids hold the same card ids, each as often, before and after the step
SameGridIds ==
  \A id \in IdsOf(GridCards) \cup IdsOf(GridCards') :
    Occurrences(GridCards, id) = Occurrences(GridCards', id)

\* C31: executeAbility with 'swap' exchanges what the caller's own target cell
\* and the opponent's target cell hold: after it each of the two cells holds
\* what the other held, isFaceUp included, every other cell is unchanged, and
\* the grids hold the same card ids as before
C31_SwapEffect ==
  [][TransactionStep("executeAbility") =>
       \A t \in SwapTargets(lastCall'.playerId) :
         ExecuteAbility("swap", lastCall'.playerId, t) =>
           LET i == findIndex(players, lastCall'.playerId)
               j == findIndex(players, t.opponentPlayerId)
               a == CellAt(t.ownRow, t.ownCol)
               b == CellAt(t.oppRow, t.oppCol)
           IN /\ players'[i].cards[a] = players[j].cards[b]
              /\ players'[j].cards[b] = players[i].cards[a]
              /\ OtherCellsUnchanged2(i, a, j, b)
              /\ SameGridIds]_vars


\* the cells that the positions of a recallCards call name
PositionCells(positions) ==
  {CellAt(positions[k].row, positions[k].col) : k \in 1..Len(positions)}

\* the cards at the positions, in the order of the positions, face up
RecalledFaceUp(cards, positions) ==
  [k \in 1..Len(positions) |->
     [cards[CellAt(positions[k].row, positions[k].col)] EXCEPT !.isFaceUp = TRUE]]

\* the document is as the recallCards call of player p read it
ReadIsCurrent(p) ==
  /\ game[p].players = players
  /\ game[p].discardPile = discardPile

\* C32: a recallCards call whose positions all hold cards, with nothing
\* committed between its read and its write, puts exactly those cards face up
\* at the head of discardPile, ahead of the previous head, sets exactly those
\* cells empty, and leaves every other cell and the deck unchanged
C32_RecallEffect ==
  [][\A p \in PlayerIds :
       (/\ WriteStep(p) /\ pc[p] = "recallCards"
        /\ ReadIsCurrent(p)
        /\ \A c \in PositionCells(game[p].positions) :
             players[findIndex(players, p)].cards[c] # Null)
         => LET i == findIndex(players, p)
                cells == PositionCells(game[p].positions)
            IN /\ discardPile' =
                    RecalledFaceUp(players[i].cards, game[p].positions) \o discardPile
               /\ \A c \in cells : players'[i].cards[c] = Null
               /\ \A n \in 1..Len(players) : \A k \in 1..Len(players[n].cards) :
                    (n # i \/ k \notin cells)
                      => players'[n].cards[k] = players[n].cards[k]
               /\ deck' = deck]_vars

\* canRecallCard's test of one card against the card on top of the discard pile
MatchesHead(card, pile) ==
  /\ pile # <<>>
  /\ card # Null
  /\ card.rank = pile[1].rank
  /\ card.suit = pile[1].suit

\* C33: recallCards takes a card out of a cell only if the card's rank and suit
\* are those of the head of discardPile when it writes: a position whose card
\* does not match, or any position when the pile is empty, keeps its card, and
\* a call none of whose positions match changes neither a grid nor the pile
C33_RecallOnlyMatching ==
  [][\A p \in PlayerIds :
       (WriteStep(p) /\ pc[p] = "recallCards")
         => LET i == findIndex(players, p)
                cells == PositionCells(game[p].positions)
            IN /\ \A c \in cells :
                    ~MatchesHead(players[i].cards[c], discardPile)
                      => players'[i].cards[c] = players[i].cards[c]
               /\ (\A c \in cells : ~MatchesHead(players[i].cards[c], discardPile))
                    => /\ discardPile' = discardPile
                       /\ \A n \in 1..Len(players) :
                            players'[n].cards = players[n].cards]_vars

(***************************************************************************)
(* The operations that write grids, on the documents of InitVacated: one   *)
(* cell of one grid is empty, its card on the discard pile.                *)
(***************************************************************************)
NextVacated ==
  \/ NextReplace
  \/ \E p \in PlayerIds : \E t \in FlipTargets(p) : ExecuteAbility("flip-opponent", p, t)
  \/ \E p \in PlayerIds : \E t \in SwapTargets(p) : ExecuteAbility("swap", p, t)
  \/ \E p \in PlayerIds : CallStopRead(p)
  \/ \E p \in PlayerIds : CallStopWrite(p)
  \/ EndGame

SpecVacated == InitVacated /\ [][NextVacated]_vars

C35_CallStopEffect ==
  [][\A p \in PlayerIds :
       (WriteStep(p) /\ pc[p] = "callStop")
         => /\ players' = [players EXCEPT ![findIndex(players, p)].hasCalledStop = TRUE]
            /\ status' = "ending"
            /\ UNCHANGED <<deck, discardPile, currentPlayerIndex, activeAbility,
                           winner>>]_vars

(***************************************************************************)
(* dealCards as a function of its inputs: any deck, face-up cards          *)
(* included, of up to MaxDeal cards, for one or more players in any game   *)
(* mode.  The variable deck holds the deck it is given, then the deck it   *)
(* returns; the grids it returns are the cards of the players.             *)
(***************************************************************************)
MaxDeal == 7
DealSizes == 1..NumPlayers

\* the first n cards of a new pack, those at the places faceUp turned face up
inputDeck(n, faceUp) ==
  [k \in 1..n |-> [createDeckCard(k - 1) EXCEPT !.isFaceUp = (k \in faceUp)]]

InitDeal ==
  \E n \in 0..MaxDeal : \E faceUp \in SUBSET (1..n) : \E playerCount \in DealSizes :
    /\ deck = inputDeck(n, faceUp)
    /\ discardPile = <<>>
    /\ players = roomPlayers(playerCount)
    /\ currentPlayerIndex = 0
    /\ status = "waiting"
    /\ activeAbility = NoActiveAbility
    /\ winner = NoWinner
    /\ drawnCard = [p \in PlayerIds |-> Null]
    /\ drawnBy = [p \in PlayerIds |-> NotDrawn]
    /\ pc = [p \in PlayerIds |-> "idle"]
    /\ game = [p \in PlayerIds |-> NoGame]
    /\ startTimer = FALSE
    /\ endGameTimers = 0
    /\ lastCall = NoCall
    /\ opsLeft = 1

DealCards(mode) ==
  /\ opsLeft > 0
  /\ opsLeft' = opsLeft - 1
  /\ \E dealt \in {dealCards(deck, Len(players), mode)} :
       /\ deck' = dealt.updatedDeck
       /\ players' = [n \in 1..Len(players) |->
                        [players[n] EXCEPT !.cards = dealt.playerHands[n]]]
  /\ lastCall' = Call("dealCards", NoId, "ok")
  /\ UNCHANGED <<discardPile, currentPlayerIndex, status, activeAbility, winner,
                 drawnCard, drawnBy, pc, game, startTimer, endGameTimers>>

NextDeal == \E mode \in GameModes : DealCards(mode)

SpecDeal == InitDeal /\ [][NextDeal]_vars

\* C36: every card dealCards has put into a grid is face down, in every row,
\* whatever the deck it was given
C36_DealtFaceDown ==
  lastCall.op = "dealCards"
    => \A n \in 1..Len(players) : \A c \in 1..Len(players[n].cards) :
         players[n].cards[c] # Null => players[n].cards[c].isFaceUp = FALSE

\* C37: given a deck of fewer than playerCount * gameMode cards, dealCards does
\* not fail: it deals the cards there are, in the order of the deck, leaves
\* every further cell empty (null), builds for every player a whole grid of
\* rows * 3 cells, and returns an empty deck
C37_ShortDeck ==
  [][\A mode \in GameModes :
       (DealCards(mode) /\ Len(deck) < Len(players) * mode)
         => /\ lastCall'.result = "ok"
            /\ Len(players') = Len(players)
            /\ \A n \in 1..Len(players) :
                 /\ Len(players'[n].cards) = 3 * (mode \div 3)
                 /\ \A c \in 1..(3 * (mode \div 3)) :
                      LET k == (n - 1) * mode + c
                      IN IF k <= Len(deck)
                           THEN /\ players'[n].cards[c] # Null
                                /\ [players'[n].cards[c] EXCEPT !.isFaceUp = FALSE]
                                     = [deck[k] EXCEPT !.isFaceUp = FALSE]
                           ELSE players'[n].cards[c] = Null
            /\ deck' = <<>>]_vars

\* dealCards has dealt a deck of 7 cards to two players: the first grid is full,
\* the second holds one card and is empty from there on
C37_SevenCardsForTwo ==
  /\ lastCall.op = "dealCards"
  /\ Len(players) = 2
  /\ Len(players[1].cards) = 6 /\ Len(players[2].cards) = 6
  /\ \A c \in 1..6 : players[1].cards[c] # Null
  /\ players[2].cards[1] # Null /\ players[2].cards[1].id = 7
  /\ \A c \in 2..6 : players[2].cards[c] = Null
  /\ deck = <<>>

\* the ids the cards of createDeck carry (a card without an id, or with the
\* placeholder id of normalizeCard, has none of them)
CreatedIds(s) == IdsOf(s) \ {NoId, CorruptedId}

\* C38: no id of a card of createDeck occurs more than once among the cards of
\* the deck, the discard pile, the grids and the cards the players hold; so no
\* two players hold the same card, and no card is in the document twice
C38_NoDuplicateCard ==
  LET everywhere == deck \o discardPile \o GridCards \o HeldCards
  IN \A id \in CreatedIds(everywhere) : Occurrences(everywhere, id) = 1

\* the step changes no cell of any grid
GridsUnchanged ==
  /\ Len(players') = Len(players)
  /\ \A n \in 1..Len(players) : players'[n].cards = players[n].cards

\* C39: executeAbility applies the effect of the ability that is pending in the
\* document only: a committed call whose ability argument is 'flip-opponent' or
\* 'swap' while activeAbility holds another ability, or none, changes no cell
\* of any grid
C39_OnlyPendingAbility ==
  [][TransactionStep("executeAbility") =>
       /\ \A t \in FlipTargets(lastCall'.playerId) :
            (ExecuteAbility("flip-opponent", lastCall'.playerId, t)
               /\ activeAbility.ability # "flip-opponent") => GridsUnchanged
       /\ \A t \in SwapTargets(lastCall'.playerId) :
            (ExecuteAbility("swap", lastCall'.playerId, t)
               /\ activeAbility.ability # "swap") => GridsUnchanged]_vars

(***************************************************************************)
(* startGame for every room the code allows: one to maxPlayers players,    *)
(* every game mode of the type GameMode.                                   *)
(***************************************************************************)
maxPlayers == 4
AllGameModes == {6, 9, 12, 15, 18, 21, 24, 27, 30}

InitAnyRoom ==
  \E playerCount \in 1..maxPlayers :
    /\ deck = <<>>
    /\ discardPile = <<>>
    /\ players = roomPlayers(playerCount)
    /\ currentPlayerIndex = 0
    /\ status = "waiting"
    /\ activeAbility = NoActiveAbility
    /\ winner = NoWinner
    /\ drawnCard = [p \in PlayerIds |-> Null]
    /\ drawnBy = [p \in PlayerIds |-> NotDrawn]
    /\ pc = [p \in PlayerIds |-> "idle"]
    /\ game = [p \in PlayerIds |-> NoGame]
    /\ startTimer = FALSE
    /\ endGameTimers = 0
    /\ lastCall = NoCall
    /\ opsLeft = 1

NextAnyRoom ==
  \/ \E mode \in AllGameModes, seed \in Seeds : StartGame(mode, seed)
  \/ StartTimer

SpecAnyRoom == InitAnyRoom /\ [][NextAnyRoom]_vars

\* C40: startGame, for one to four players and every game mode from 6 to 30,
\* makes 108 cards for each player, which is no fewer than the playerCount *
\* gameMode cards of the grids: every grid has gameMode cells and a card in
\* each, the deck keeps 108 * playerCount - playerCount * gameMode cards, and
\* the discard pile is empty
C40_DeckSuffices ==
  lastCall.op = "startGame"
    => LET playerCount == Len(players)
           mode == Len(players[1].cards)
       IN /\ playerCount \in 1..4
          /\ mode \in AllGameModes
          /\ 108 * playerCount >= playerCount * mode
          /\ \A n \in 1..playerCount :
               /\ Len(players[n].cards) = mode
               /\ \A c \in 1..mode : players[n].cards[c] # Null
          /\ Len(deck) = 108 * playerCount - playerCount * mode
          /\ discardPile = <<>>

\* startGame has dealt four grids of 30 cards and kept 312 of the 432 cards
C40_FourGridsOfThirty ==
  /\ lastCall.op = "startGame"
  /\ Len(players) = 4
  /\ \A n \in 1..4 : Len(players[n].cards) = 30 /\ players[n].cards[30] # Null
  /\ Len(deck) = 312
====
